---- MODULE Spec2Model ----
(***************************************************************************)
(* Node progression engine of valence2 (backend/routes/graph.py,           *)
(* backend/routes/chat.py, backend/database.py).                           *)
(*                                                                         *)
(* The store is the user_nodes table of one user.  Every execute_query     *)
(* call opens its own connection and commits (database.py:15-34), so one   *)
(* query is one atomic step and a handler is a sequence of such steps.     *)
(* Handlers of different requests and the background tasks of chat turns   *)
(* interleave between their queries: the background tasks are plain        *)
(* functions run in the thread pool, next to the event loop that runs the  *)
(* `async def` handlers, and nothing in the code restricts the store to    *)
(* one server process.                                                     *)
(*                                                                         *)
(* Spec        requests interleaved query by query, store errors included  *)
(* SpecScoring the scoring tasks of curious chat turns alone               *)
(* SpecSeq     requests served one after the other, each handler whole     *)
(* SpecChat    chat turns: the two oracle calls, the response and the      *)
(*             background tasks of each turn, store errors included        *)
(***************************************************************************)
EXTENDS Integers, Sequences, FiniteSets, TLC

VARIABLES graph_data, user_nodes, procs, calls, last, turns, reply

vars == <<graph_data, user_nodes, procs, calls, last, turns, reply>>

(* ------------------------------ bounds -------------------------------- *)

\* number of requests / background tasks that can be in progress at once
NumProcs == 2
\* number of calls started in one behaviour
MaxCalls == 3
\* number of chat turns started in one behaviour of SpecScoring
MaxTurns == 6
\* how far AdjustCuriosity may take a score outside 0..ScoreCap before the
\* model stops following it
ScoreSlack == 1

\* number of chat turns started in one behaviour of SpecChat
MaxChats == 2
\* largest number of messages in the request of a chat turn
MaxMessages == 10

Procs == 1..NumProcs

(* ------------------------- program constants -------------------------- *)

\* chat.py:121 `current_score < 5`, chat.py:135 `new_score >= 5`
ScoreCap == 5

\* graph.py:67  is_unlocked = node_id in ["moles", "defining_matter"]
SeedNodes == {"moles", "defining_matter"}

\* a reset whose seed list lost a node
ResetSeedNodesShort == {"moles"}

\* graph.py:199 WHEN node_id IN ('moles', 'defining_matter') THEN TRUE
ResetSeedNodes == {"moles", "defining_matter"}

(* ------------------- public/data/apchem.json (input) ------------------ *)

\* the chain of the specification's scenario
ChainGraph ==
  [nodes |-> <<"moles", "defining_matter", "molarity">>,
   edges |-> << <<"moles", "defining_matter">>,
                <<"defining_matter", "molarity">> >>]

\* an edge whose target is not a node of the file
DanglingGraph ==
  [nodes |-> <<"moles", "molarity">>,
   edges |-> << <<"moles", "molarity">>, <<"molarity", "ghost">> >>]

\* nodes without any edge: every neighbour list is empty
IsolatedGraph ==
  [nodes |-> <<"moles", "molarity">>, edges |-> <<>>]

Topologies == {ChainGraph, DanglingGraph, IsolatedGraph}

NodeIds == {"moles", "defining_matter", "molarity"}

SeqToSet(s) == {s[i] : i \in DOMAIN s}

(* --------------------------- the table -------------------------------- *)

\* graph.py:40-55: neighbors_map, one list per node, appended per edge
RECURSIVE AddEdges(_, _, _)
AddEdges(map, edges, k) ==
  IF k > Len(edges) THEN map
  ELSE LET source == edges[k][1]
           target == edges[k][2]
           m1 == IF source \in DOMAIN map
                 THEN [map EXCEPT ![source] = Append(@, target)]
                 ELSE map
           m2 == IF target \in DOMAIN m1
                 THEN [m1 EXCEPT ![target] = Append(@, source)]
                 ELSE m1
       IN AddEdges(m2, edges, k + 1)

NeighborsMap(g) ==
  AddEdges([n \in SeqToSet(g.nodes) |-> <<>>], g.edges, 1)

\* the value of the chat_history column of a row inserted without one: the
\* column is not part of the CREATE TABLE of database.py:59-72; the data model
\* of the specification has the history start empty, and get_chat_history
\* (chat.py:186-187) answers [] for an unset one
ChatHistoryDefault == <<>>

\* graph.py:58-73: the row one INSERT writes
NewRow(g, node_id) ==
  [node_id         |-> node_id,
   neighbors       |-> NeighborsMap(g)[node_id],
   is_completed    |-> FALSE,
   curiosity_score |-> 0,
   is_unlocked     |-> node_id \in SeedNodes,
   chat_history    |-> ChatHistoryDefault]

\* rows selected by WHERE user_id = %s AND node_id = %s
RowsWhere(t, node_id) == {i \in DOMAIN t : t[i].node_id = node_id}

\* rows selected by WHERE user_id = %s AND node_id = ANY(%s)
RowsWhereAny(t, ids) == {i \in DOMAIN t : t[i].node_id \in SeqToSet(ids)}

\* a table without the constraint
UniqueViolationNever(t, row) == FALSE

\* database.py:70 UNIQUE(user_id, node_id)
UniqueViolation(t, row) == RowsWhere(t, row.node_id) # {}

(* --------------------------- requests --------------------------------- *)

NoResult == [status |-> "none", message |-> "", value |-> 0, list |-> <<>>]

Result(status, message, value, list) ==
  [status |-> status, message |-> message, value |-> value, list |-> list]

IdleProc ==
  [op |-> "none", pc |-> "idle", node |-> "none", delta |-> 0,
   curious |-> FALSE, hist |-> <<>>, nbrs |-> <<>>, idx |-> 0, tmp |-> <<>>,
   result |-> NoResult]

\* a handler returns: its locals are dropped, its response is kept
Return(ps, res) ==
  [IdleProc EXCEPT !.op = ps.op, !.pc = "done", !.node = ps.node,
                   !.delta = ps.delta, !.curious = ps.curious,
                   !.result = res]

Out(t, ps) == [t |-> t, ps |-> ps]

(* ------------------ initialize_graph, graph.py:25-85 ------------------ *)

\* graph.py:33-38 (and 63-79 when the file has no node)
InitCheck(g, t, ps) ==
  LET count == Len(t) IN
  IF count > 0
  THEN Out(t, Return(ps, Result("200", "Graph already initialized", count, <<>>)))
  ELSE IF Len(g.nodes) = 0
       THEN Out(t, Return(ps, Result("200", "Graph initialized successfully", 0, <<>>)))
       ELSE Out(t, [ps EXCEPT !.pc = "init_insert", !.idx = 1])

\* graph.py:64-79, one iteration; the except of 83-85 on a failed INSERT
InitInsert(g, t, ps) ==
  LET row == NewRow(g, g.nodes[ps.idx]) IN
  IF UniqueViolation(t, row)
  THEN Out(t, Return(ps, Result("500", "duplicate key", 0, <<>>)))
  ELSE IF ps.idx = Len(g.nodes)
       THEN Out(Append(t, row),
                Return(ps, Result("200", "Graph initialized successfully", ps.idx, <<>>)))
       ELSE Out(Append(t, row), [ps EXCEPT !.idx = ps.idx + 1])

(* ------------------- complete_node, graph.py:113-166 ------------------ *)

\* a wrong completion: the flag is flipped instead of set
SetCompletedToggle(t, node_id) ==
  [i \in DOMAIN t |->
     IF t[i].node_id = node_id THEN [t[i] EXCEPT !.is_completed = ~@] ELSE t[i]]

\* UPDATE ... SET is_completed = TRUE WHERE node_id = %s (graph.py:118-123,
\* chat.py:138-143)
SetCompleted(t, node_id) ==
  [i \in DOMAIN t |->
     IF t[i].node_id = node_id THEN [t[i] EXCEPT !.is_completed = TRUE] ELSE t[i]]

\* a wrong unlock: the flag of every row is set to whether the row was selected
SetUnlockedOnlySelected(t, S) ==
  [i \in DOMAIN t |-> [t[i] EXCEPT !.is_unlocked = (i \in S)]]

\* UPDATE ... SET is_unlocked = TRUE on the rows S (graph.py:155-159,
\* chat.py:152-156)
SetUnlocked(t, S) ==
  [i \in DOMAIN t |->
     IF i \in S THEN [t[i] EXCEPT !.is_unlocked = TRUE] ELSE t[i]]

\* result[0] of a query that selected the rows S
FirstRow(t, S) == t[CHOOSE i \in S : \A j \in S : i <= j]

\* graph.py:132 / 162: the next neighbour of the loop, or the response
NextNeighbor(t, ps) ==
  IF ps.idx >= Len(ps.nbrs)
  THEN Out(t, Return(ps, Result("200", "Node completed successfully", 0, ps.nbrs)))
  ELSE Out(t, [ps EXCEPT !.pc = "complete_nbr", !.idx = ps.idx + 1, !.tmp = <<>>])

\* graph.py:117-129; the HTTPException(404) of line 127 is raised inside the
\* try and caught by `except Exception` (164-166), which answers 500
CompleteMark(t, ps) ==
  LET S == RowsWhere(t, ps.node) IN
  IF S = {}
  THEN Out(t, Return(ps, Result("500", "404: Node not found", 0, <<>>)))
  ELSE NextNeighbor(SetCompleted(t, ps.node),
                    [ps EXCEPT !.nbrs = FirstRow(t, S).neighbors, !.idx = 0])

\* graph.py:133-141
CompleteNbr(t, ps) ==
  LET S == RowsWhere(t, ps.nbrs[ps.idx]) IN
  IF S = {}
  THEN NextNeighbor(t, ps)
  ELSE Out(t, [ps EXCEPT !.pc = "complete_count", !.tmp = FirstRow(t, S).neighbors])

\* a count that is positive only when every listed node is completed
CompletedCountAll(t, ids) ==
  IF Cardinality({i \in RowsWhereAny(t, ids) : t[i].is_completed}) = Len(ids)
  THEN Len(ids) ELSE 0

\* graph.py:143-154: SUM(CASE WHEN is_completed THEN 1 ELSE 0 END) over the
\* rows with node_id = ANY(neighbor_neighbors); NULL (no row) counts as 0
CompletedCount(t, ids) ==
  Cardinality({i \in RowsWhereAny(t, ids) : t[i].is_completed})

CompleteCount(t, ps) ==
  IF CompletedCount(t, ps.tmp) > 0
  THEN Out(t, [ps EXCEPT !.pc = "complete_unlock"])
  ELSE NextNeighbor(t, ps)

\* graph.py:155-160 with the UPDATE widened to the neighbour's own neighbours
CompleteUnlockWide(t, ps) ==
  NextNeighbor(SetUnlocked(t, RowsWhere(t, ps.nbrs[ps.idx])
                               \cup RowsWhereAny(t, ps.tmp)), ps)

\* graph.py:155-160
CompleteUnlock(t, ps) ==
  NextNeighbor(SetUnlocked(t, RowsWhere(t, ps.nbrs[ps.idx])), ps)

(* -------------- update_curiosity_score, graph.py:168-186 -------------- *)

\* UPDATE ... SET curiosity_score = curiosity_score + %s (graph.py:175-180,
\* chat.py:122-128)
AddScore(t, node_id, d) ==
  [i \in DOMAIN t |->
     IF t[i].node_id = node_id
     THEN [t[i] EXCEPT !.curiosity_score = @ + d] ELSE t[i]]

AdjustScore(t, ps) ==
  LET S  == RowsWhere(t, ps.node)
      t2 == AddScore(t, ps.node, ps.delta)
  IN IF S = {}
     THEN Out(t, Return(ps, Result("404", "Node not found", 0, <<>>)))
     ELSE Out(t2, Return(ps, Result("200", "", FirstRow(t2, S).curiosity_score, <<>>)))

(* -------------------- reset_graph, graph.py:188-212 ------------------- *)

ResetRows(t) ==
  [i \in DOMAIN t |->
     [t[i] EXCEPT !.is_completed = FALSE,
                  !.curiosity_score = 0,
                  !.is_unlocked = (t[i].node_id \in ResetSeedNodes),
                  !.chat_history = <<>>]]

ResetAll(t, ps) ==
  Out(ResetRows(t), Return(ps, Result("200", "Graph reset successfully", 0, <<>>)))

(* -------------- process_curiosity_score, chat.py:103-163 -------------- *)

\* chat.py:110-121
ScoreCheck(t, ps) ==
  LET S == RowsWhere(t, ps.node) IN
  IF S = {}
  THEN Out(t, Return(ps, Result("task_done", "node not found", 0, <<>>)))
  ELSE IF FirstRow(t, S).curiosity_score < ScoreCap /\ ~FirstRow(t, S).is_completed
       THEN Out(t, [ps EXCEPT !.pc = "score_incr"])
       ELSE Out(t, Return(ps, Result("task_done", "no increment", 0, <<>>)))

\* chat.py:122-135
ScoreIncr(t, ps) ==
  LET S  == RowsWhere(t, ps.node)
      t2 == AddScore(t, ps.node, 1)
  IN IF S = {}
     THEN Out(t, Return(ps, Result("task_done", "no row updated", 0, <<>>)))
     ELSE IF FirstRow(t2, S).curiosity_score >= ScoreCap
          THEN Out(t2, [ps EXCEPT !.pc = "score_complete"])
          ELSE Out(t2, Return(ps, Result("task_done", "incremented",
                                          FirstRow(t2, S).curiosity_score, <<>>)))

\* chat.py:136-151
ScoreComplete(t, ps) ==
  LET S == RowsWhere(t, ps.node) IN
  IF S = {}
  THEN Out(t, Return(ps, Result("task_done", "no row completed", 0, <<>>)))
  ELSE IF FirstRow(t, S).neighbors = <<>>
       THEN Out(SetCompleted(t, ps.node),
                Return(ps, Result("task_done", "completed", 0, <<>>)))
       ELSE Out(SetCompleted(t, ps.node),
                [ps EXCEPT !.pc = "score_unlock", !.nbrs = FirstRow(t, S).neighbors])

\* an unlock that reaches the first neighbour of the list only
ScoreUnlockFirst(t, ps) ==
  Out(SetUnlocked(t, RowsWhere(t, ps.nbrs[1])),
      Return(ps, Result("task_done", "completed", 0, ps.nbrs)))

\* chat.py:152-158: every neighbour, whatever its own neighbours are
ScoreUnlock(t, ps) ==
  Out(SetUnlocked(t, RowsWhereAny(t, ps.nbrs)),
      Return(ps, Result("task_done", "completed", 0, ps.nbrs)))

(* ----------- save_chat_history_background, chat.py:165-177 ------------ *)

SaveHistory(t, ps) ==
  Out([i \in DOMAIN t |->
         IF t[i].node_id = ps.node THEN [t[i] EXCEPT !.chat_history = ps.hist]
         ELSE t[i]],
      Return(ps, Result("task_done", "history saved", Len(ps.hist), <<>>)))

(* ----------------------- chat, chat.py:195-284 ------------------------ *)

\* chat.py:250 updated_messages[-10:]
HistoryLimit == 10

\* the request messages of turn id: n messages that end with the question
\* of the user (chat.py:38-40, 204-209); the content names turn and place
Conversation(id, n) ==
  [k \in 1..n |->
     [role    |-> IF (n - k) % 2 = 0 THEN "user" ELSE "assistant",
      content |-> <<id, k>>]]

\* chat.py:93-101: the text the answer oracle returns for turn id
AnswerText(id) == <<id, 0>>

\* every message, none cut off
KeepAll(msgs) == msgs

\* chat.py:250 updated_messages[-10:]
LastMessages(msgs) ==
  IF Len(msgs) <= HistoryLimit THEN msgs
  ELSE SubSeq(msgs, Len(msgs) - HistoryLimit + 1, Len(msgs))

\* chat.py:246-251
BuildHistory(msgs, text) ==
  LastMessages(Append(msgs, [role |-> "assistant", content |-> text]))

\* what the judgment oracle can do: answer with the JSON object asked for
\* (is_curious true or false), with text that is no JSON, with JSON that is
\* no object (a list, a string, null), or raise
JudgeOutputs == {"curious", "not_curious", "unparsable", "non_object", "error"}

\* the judgments that are a failure or not the expected object
DegradedJudgments == {"unparsable", "non_object", "error"}

\* chat.py:42-91: the value evaluate_curiosity returns.  json.loads raising
\* and the oracle raising are caught (chat.py:89-91); a JSON value that is
\* no object is returned as it is (chat.py:86-87)
evaluate_curiosity(out) ==
  CASE out = "curious"     -> [object |-> TRUE, is_curious |-> TRUE]
    [] out = "not_curious" -> [object |-> TRUE, is_curious |-> FALSE]
    [] out = "non_object"  -> [object |-> FALSE, is_curious |-> FALSE]
    [] OTHER               -> [object |-> TRUE, is_curious |-> FALSE]

\* the numbers of request messages of the turns
MessageCounts == {1, MaxMessages}

\* the histories the chat turns hand to save_chat_history_background
ChatHistories ==
  {BuildHistory(Conversation(id, n), AnswerText(id)) :
     id \in 1..MaxChats, n \in MessageCounts}

\* a chat turn: where its handler is, its request (id, node, n messages),
\* what the two oracle calls have returned, its is_curious, and whether a
\* background task of the turn has printed an error (chat.py:161, 177)
IdleTurn ==
  [pc |-> "idle", id |-> 0, node |-> "none", n |-> 0,
   answer |-> "none", judge |-> "none", curious |-> FALSE, failed |-> FALSE]

\* the response of the chat turn that answered last (chat.py:271-278, 284)
\* and what the judgment call of that turn had done by then
NoReply ==
  [id |-> 0, status |-> "none", message |-> <<>>,
   curiosity_increased |-> FALSE, judge |-> "none"]

(* ------------------------ inputs of the calls ------------------------- *)

\* score_delta of update_curiosity_score: any integer (graph.py:171)
Deltas == {-1, 1, ScoreCap - 1}

\* chat_history handed to save_chat_history_background
Histories == {BuildHistory(Conversation(0, 1), AnswerText(0))}

\* node_id of a completion request: in DanglingGraph defining_matter has no row
RequestNodes == NodeIds

\* node_id of the chat turns
ChatNodes == {"defining_matter", "molarity"}

\* node_id of the score adjustments and of the history saves: in
\* DanglingGraph it has no row
AdjustNodes == {"defining_matter"}

Enter(op, pc, node) == [IdleProc EXCEPT !.op = op, !.pc = pc, !.node = node]

EnterInitializeGraph == Enter("initialize_graph", "init_check", "none")
EnterCompleteNode(x) == Enter("complete_node", "complete_mark", x)
EnterAdjust(x, d) ==
  [Enter("update_curiosity_score", "adjust", x) EXCEPT !.delta = d]
EnterResetGraph == Enter("reset_graph", "reset", "none")
\* chat.py:105-106: a turn that was not judged curious returns at once
EnterScoring(x, c) ==
  IF c
  THEN [Enter("process_curiosity_score", "score_check", x) EXCEPT !.curious = TRUE]
  ELSE Return(Enter("process_curiosity_score", "score_check", x),
              Result("task_done", "not curious", 0, <<>>))
EnterSaveHistory(x, h) ==
  [Enter("save_chat_history_background", "save_history", x) EXCEPT !.hist = h]

\* the model follows a score only within this range
ScoreInRange(t) ==
  \A i \in DOMAIN t :
     t[i].curiosity_score \in (0 - ScoreSlack)..(ScoreCap + ScoreSlack)

\* one query of the handler that is at ps.pc
StepOf(g, t, ps) ==
  CASE ps.pc = "init_check"      -> InitCheck(g, t, ps)
    [] ps.pc = "init_insert"     -> InitInsert(g, t, ps)
    [] ps.pc = "complete_mark"   -> CompleteMark(t, ps)
    [] ps.pc = "complete_nbr"    -> CompleteNbr(t, ps)
    [] ps.pc = "complete_count"  -> CompleteCount(t, ps)
    [] ps.pc = "complete_unlock" -> CompleteUnlock(t, ps)
    [] ps.pc = "adjust"          -> AdjustScore(t, ps)
    [] ps.pc = "reset"           -> ResetAll(t, ps)
    [] ps.pc = "score_check"     -> ScoreCheck(t, ps)
    [] ps.pc = "score_incr"      -> ScoreIncr(t, ps)
    [] ps.pc = "score_complete"  -> ScoreComplete(t, ps)
    [] ps.pc = "score_unlock"    -> ScoreUnlock(t, ps)
    [] ps.pc = "save_history"    -> SaveHistory(t, ps)
    [] ps.pc = "done"            -> Out(t, ps)

\* a handler run from its entry to its return with no other request between
RECURSIVE Run(_, _, _)
Run(g, t, ps) ==
  IF ps.pc = "done" THEN Out(t, ps)
  ELSE LET o == StepOf(g, t, ps) IN Run(g, o.t, o.ps)

\* database.py:32-34: the query raises and nothing is committed.  The graph
\* handlers answer 500 (graph.py:83-85, 164-166, 210-212; 168-186 has no
\* try), the background tasks print the error and end (chat.py:160-163,
\* 176-177)
BackgroundOps == {"process_curiosity_score", "save_chat_history_background"}

Raise(ps) ==
  IF ps.op \in BackgroundOps
  THEN Return(ps, Result("task_failed", "store error", 0, <<>>))
  ELSE Return(ps, Result("500", "store error", 0, <<>>))

(* ------------------------------ state --------------------------------- *)

\* graph_data: the content of public/data/apchem.json (graph.py:30-31)
\* user_nodes: the rows of the user_nodes table in the order of their SERIAL
\*             id (database.py:59-72); rows are never deleted
\* procs:      the requests and background tasks in progress, each with the
\*             place of its handler and the handler's local variables
\* last:       the call that returned last, with its response
\* calls:      the number of calls started
\* turns:      the chat turns in progress; the background tasks of turn p
\*             run in procs[p]
\* reply:      the response of the chat turn that answered last
TypeOK ==
  /\ graph_data \in Topologies
  /\ \A i \in DOMAIN user_nodes :
        /\ user_nodes[i].node_id \in SeqToSet(graph_data.nodes)
        /\ user_nodes[i].is_completed \in BOOLEAN
        /\ user_nodes[i].is_unlocked \in BOOLEAN
        /\ user_nodes[i].curiosity_score \in Int
        /\ user_nodes[i].chat_history \in Histories \cup ChatHistories \cup {<<>>}
  /\ \A p \in Procs : procs[p].pc # "done"
  /\ last.pc \in {"idle", "done"}
  /\ calls \in Nat

(* ------------------------------ Init ---------------------------------- *)

\* the table a first initialize_graph call leaves when nothing interferes
InitializedRows(g) == Run(g, <<>>, EnterInitializeGraph).t

\* after init_db (database.py:36-75) the table exists and has no row; a
\* behaviour starts there or after the user's first initialize_graph call
Init ==
  /\ graph_data \in Topologies
  /\ user_nodes \in {<<>>, InitializedRows(graph_data)}
  /\ procs = [p \in Procs |-> IdleProc]
  /\ calls = 0
  /\ last = IdleProc
  /\ turns = [p \in Procs |-> IdleTurn]
  /\ reply = NoReply

(* --------------------- requests that interleave ----------------------- *)

\* the step of p; when the handler returns, its slot is free again and its
\* call and response are the last ones seen
Apply(p, o) ==
  /\ user_nodes' = o.t
  /\ procs' = [procs EXCEPT ![p] = IF o.ps.pc = "done" THEN IdleProc ELSE o.ps]
  /\ last' = IF o.ps.pc = "done" THEN o.ps ELSE last
  /\ UNCHANGED <<graph_data, turns, reply>>

Step(p, o) == Apply(p, o) /\ UNCHANGED calls

\* a request arrives and runs up to and including its first query
BeginWithin(p, ps, bound) ==
  /\ procs[p].pc = "idle"
  /\ calls < bound
  /\ ScoreInRange(StepOf(graph_data, user_nodes, ps).t)
  /\ Apply(p, StepOf(graph_data, user_nodes, ps))
  /\ calls' = calls + 1

Begin(p, ps) == BeginWithin(p, ps, MaxCalls)

\* a request arrives and its first query raises
BeginFailing(p, ps) ==
  /\ procs[p].pc = "idle"
  /\ calls < MaxCalls
  /\ Apply(p, Out(user_nodes, Raise(ps)))
  /\ calls' = calls + 1

CallInitializeGraph(p) == Begin(p, EnterInitializeGraph)
CallCompleteNode(p) == \E x \in RequestNodes : Begin(p, EnterCompleteNode(x))
CallAdjustCuriosity(p) ==
  \E x \in AdjustNodes, d \in Deltas : Begin(p, EnterAdjust(x, d))
CallResetGraph(p) == Begin(p, EnterResetGraph)
CallScoring(p) ==
  \E x \in ChatNodes, c \in BOOLEAN : Begin(p, EnterScoring(x, c))
CallSaveHistory(p) ==
  \E x \in AdjustNodes, h \in Histories : Begin(p, EnterSaveHistory(x, h))

InitInsertStep(p) ==
  procs[p].pc = "init_insert" /\ Step(p, InitInsert(graph_data, user_nodes, procs[p]))
CompleteNbrStep(p) ==
  procs[p].pc = "complete_nbr" /\ Step(p, CompleteNbr(user_nodes, procs[p]))
CompleteCountStep(p) ==
  procs[p].pc = "complete_count" /\ Step(p, CompleteCount(user_nodes, procs[p]))
CompleteUnlockStep(p) ==
  procs[p].pc = "complete_unlock" /\ Step(p, CompleteUnlock(user_nodes, procs[p]))
ScoreIncrStep(p) ==
  procs[p].pc = "score_incr" /\ Step(p, ScoreIncr(user_nodes, procs[p]))
ScoreCompleteStep(p) ==
  procs[p].pc = "score_complete" /\ Step(p, ScoreComplete(user_nodes, procs[p]))
ScoreUnlockStep(p) ==
  procs[p].pc = "score_unlock" /\ Step(p, ScoreUnlock(user_nodes, procs[p]))

\* a later query of a handler in progress raises
StoreFailure(p) ==
  /\ procs[p].pc # "idle"
  /\ Step(p, Out(user_nodes, Raise(procs[p])))

\* the first query of a request raises
CallStoreFailure(p) ==
  \/ BeginFailing(p, EnterInitializeGraph)
  \/ \E x \in RequestNodes : BeginFailing(p, EnterCompleteNode(x))
  \/ \E x \in ChatNodes : BeginFailing(p, EnterScoring(x, TRUE))

Next ==
  \E p \in Procs :
     \/ CallInitializeGraph(p)
     \/ CallCompleteNode(p)
     \/ CallAdjustCuriosity(p)
     \/ CallResetGraph(p)
     \/ CallScoring(p)
     \/ CallSaveHistory(p)
     \/ InitInsertStep(p)
     \/ CompleteNbrStep(p)
     \/ CompleteCountStep(p)
     \/ CompleteUnlockStep(p)
     \/ ScoreIncrStep(p)
     \/ ScoreCompleteStep(p)
     \/ ScoreUnlockStep(p)
     \/ StoreFailure(p)
     \/ CallStoreFailure(p)

Spec == Init /\ [][Next]_vars

(* ------------- chat turns alone, racing on their scoring -------------- *)

InitScoring ==
  /\ graph_data \in Topologies
  /\ user_nodes = InitializedRows(graph_data)
  /\ procs = [p \in Procs |-> IdleProc]
  /\ calls = 0
  /\ last = IdleProc
  /\ turns = [p \in Procs |-> IdleTurn]
  /\ reply = NoReply

\* chat.py:261-268: the scoring task of a turn judged curious
ChatTurn(p) ==
  \E x \in ChatNodes : BeginWithin(p, EnterScoring(x, TRUE), MaxTurns)

NextScoring ==
  \E p \in Procs :
     \/ ChatTurn(p)
     \/ ScoreIncrStep(p)
     \/ ScoreCompleteStep(p)
     \/ ScoreUnlockStep(p)

SpecScoring == InitScoring /\ [][NextScoring]_vars

(* ---------------- requests served one after the other ----------------- *)

\* the whole handler, from the request to its response
Serve(ps) ==
  LET o == Run(graph_data, user_nodes, ps) IN
  /\ calls < MaxCalls
  /\ ScoreInRange(o.t)
  /\ user_nodes' = o.t
  /\ last' = o.ps
  /\ calls' = calls + 1
  /\ UNCHANGED <<graph_data, procs, turns, reply>>

InitializeGraph == Serve(EnterInitializeGraph)
CompleteNode == \E x \in RequestNodes : Serve(EnterCompleteNode(x))
AdjustCuriosity == \E x \in ChatNodes, d \in Deltas : Serve(EnterAdjust(x, d))
ResetGraph == Serve(EnterResetGraph)
Scoring == \E x \in ChatNodes, c \in BOOLEAN : Serve(EnterScoring(x, c))
SaveChatHistory == \E x \in ChatNodes, h \in Histories : Serve(EnterSaveHistory(x, h))

NextSeq ==
  \/ InitializeGraph
  \/ CompleteNode
  \/ AdjustCuriosity
  \/ ResetGraph
  \/ Scoring
  \/ SaveChatHistory

SpecSeq == Init /\ [][NextSeq]_vars

(* --------------- chat turns with their background tasks --------------- *)

\* chat.py:242 asyncio.gather without return_exceptions: the await ends
\* when both oracle calls have returned, or as soon as the answer call has
\* raised; evaluate_curiosity never raises
CanRespond(tn) ==
  /\ tn.pc = "gather"
  /\ \/ tn.answer = "failed"
     \/ tn.answer = "ok" /\ tn.judge # "pending"

\* chat.py:242-278: the handler reaches its return when the answer call has
\* not raised and curiosity_eval.get (chat.py:262) has not raised
Answered(tn) ==
  tn.answer = "ok" /\ evaluate_curiosity(tn.judge).object

\* tasks handed over whatever happened to the answer
TasksScheduledAlways(tn) == TRUE

\* chat.py:253-268: add_task is called after the gather, and the tasks run
\* after the response of a handler that returned; a handler that raised
\* has its tasks dropped with the request
TasksScheduled(tn) == Answered(tn)

\* a failed task ends the run of the tasks of its turn
NextTaskUnlessFailed(tn, ps) ==
  IF /\ ps.op = "save_chat_history_background"
     /\ ps.result.status # "task_failed"
     /\ tn.curious
  THEN EnterScoring(tn.node, TRUE)
  ELSE IdleProc

\* chat.py:254-268: the tasks of a turn run one after the other in the
\* order of add_task, save_chat_history_background first; both catch their
\* exceptions (chat.py:160-163, 176-177).  The scoring task of a turn that
\* is not curious returns before its first query (chat.py:105-106)
NextTask(tn, ps) ==
  IF ps.op = "save_chat_history_background"
     /\ EnterScoring(tn.node, tn.curious).pc # "done"
  THEN EnterScoring(tn.node, tn.curious)
  ELSE IdleProc

\* the table before the turns of a behaviour: initialized, and earlier
\* curious turns have brought defining_matter two below the cap
InitChat ==
  /\ graph_data \in Topologies
  /\ user_nodes = AddScore(InitializedRows(graph_data), "defining_matter",
                          ScoreCap - 2)
  /\ procs = [p \in Procs |-> IdleProc]
  /\ calls = 0
  /\ last = IdleProc
  /\ turns = [p \in Procs |-> IdleTurn]
  /\ reply = NoReply

\* chat.py:195-240: the request arrives and both oracle calls are started;
\* it is told apart from the turns in progress by the first free place
CallChat(p) ==
  /\ turns[p].pc = "idle"
  /\ \A q \in 1..(p - 1) : turns[q].pc # "idle"
  /\ calls < MaxChats
  /\ \E x \in AdjustNodes, n \in MessageCounts :
        turns' = [turns EXCEPT ![p] =
                    [pc |-> "gather", id |-> calls + 1, node |-> x, n |-> n,
                     answer |-> "pending", judge |-> "pending",
                     curious |-> FALSE, failed |-> FALSE]]
  /\ calls' = calls + 1
  /\ UNCHANGED <<graph_data, user_nodes, procs, last, reply>>

\* chat.py:93-101: get_chat_response returns the text
AnswerReturns(p) ==
  /\ turns[p].pc = "gather" /\ turns[p].answer = "pending"
  /\ turns' = [turns EXCEPT ![p].answer = "ok"]
  /\ UNCHANGED <<graph_data, user_nodes, procs, calls, last, reply>>

\* chat.py:93-101: get_chat_response raises
AnswerFails(p) ==
  /\ turns[p].pc = "gather" /\ turns[p].answer = "pending"
  /\ turns' = [turns EXCEPT ![p].answer = "failed"]
  /\ UNCHANGED <<graph_data, user_nodes, procs, calls, last, reply>>

\* chat.py:42-91: the judgment oracle has done one of the things it can do
JudgmentReturns(p) ==
  /\ turns[p].pc = "gather" /\ turns[p].judge = "pending"
  /\ \E out \in JudgeOutputs : turns' = [turns EXCEPT ![p].judge = out]
  /\ UNCHANGED <<graph_data, user_nodes, procs, calls, last, reply>>

\* chat.py:242-284: the await ends, the handler answers
ChatRespond(p) ==
  LET tn == turns[p]
      is_curious == evaluate_curiosity(tn.judge).is_curious
  IN /\ CanRespond(tn)
     /\ reply' = IF Answered(tn)
                 THEN [id |-> tn.id, status |-> "200",
                       message |-> AnswerText(tn.id),
                       curiosity_increased |-> is_curious, judge |-> tn.judge]
                 ELSE [id |-> tn.id, status |-> "500", message |-> <<>>,
                       curiosity_increased |-> FALSE, judge |-> tn.judge]
     /\ IF TasksScheduled(tn)
        THEN /\ turns' = [turns EXCEPT ![p] =
                            [tn EXCEPT !.pc = "tasks", !.answer = "none",
                                       !.judge = "none",
                                       !.curious = is_curious]]
             /\ procs' = [procs EXCEPT ![p] =
                            EnterSaveHistory(tn.node,
                               BuildHistory(Conversation(tn.id, tn.n),
                                            AnswerText(tn.id)))]
        ELSE /\ turns' = [turns EXCEPT ![p] = IdleTurn]
             /\ procs' = procs
     /\ UNCHANGED <<graph_data, user_nodes, calls, last>>

\* the task of turn p has made the step o; when the task has ended the next
\* task of the turn starts, and after the last one the turn is over
TaskApply(p, o) ==
  /\ user_nodes' = o.t
  /\ IF o.ps.pc = "done"
     THEN /\ procs' = [procs EXCEPT ![p] = NextTask(turns[p], o.ps)]
          /\ turns' = [turns EXCEPT ![p] =
                         IF NextTask(turns[p], o.ps).pc = "idle"
                         THEN IdleTurn
                         ELSE [@ EXCEPT !.failed =
                                 o.ps.result.status = "task_failed"]]
     ELSE /\ procs' = [procs EXCEPT ![p] = o.ps]
          /\ turns' = turns
  /\ UNCHANGED <<graph_data, calls, last, reply>>

\* one query of the running background task of turn p
TaskStep(p) ==
  /\ turns[p].pc = "tasks"
  /\ TaskApply(p, StepOf(graph_data, user_nodes, procs[p]))

\* the query of the running background task of turn p raises
TaskFailure(p) ==
  /\ turns[p].pc = "tasks"
  /\ TaskApply(p, Out(user_nodes, Raise(procs[p])))

NextChat ==
  \E p \in Procs :
     \/ CallChat(p)
     \/ AnswerReturns(p)
     \/ AnswerFails(p)
     \/ JudgmentReturns(p)
     \/ ChatRespond(p)
     \/ TaskStep(p)
     \/ TaskFailure(p)

SpecChat == InitChat /\ [][NextChat]_vars

(* ============================== claims =============================== *)

Rows == DOMAIN user_nodes

\* p ends its handler in this step
Returns(p) == procs[p].pc # "idle" /\ procs'[p].pc = "idle"

(* C1: under every sequence and interleaving of AdjustCuriosity calls the  *)
(* curiosity_score of every row is within 0..5, and an adjustment that     *)
(* would leave the range is answered as a success that changes nothing.    *)
C1_ScoreWithinBounds ==
  /\ \A i \in Rows : user_nodes[i].curiosity_score \in 0..ScoreCap
  /\ last.op = "update_curiosity_score" /\ last.result.status = "200"
       => last.result.value \in 0..ScoreCap

(* C2: whatever the interleaving of the scoring tasks of chat turns judged *)
(* curious (read score and completion, then increment), no row ever has a  *)
(* curiosity_score above 5.                                                *)
C2_ScoreNeverAboveCap ==
  \A i \in Rows : user_nodes[i].curiosity_score <= ScoreCap

(* C3: in every reachable state a completed row is unlocked, after a       *)
(* manual CompleteNode as after a score-triggered completion, also when    *)
(* the node was locked before.                                             *)
C3_CompletedImpliesUnlocked ==
  \A i \in Rows : user_nodes[i].is_completed => user_nodes[i].is_unlocked

(* C4: a step that is not a ResetGraph call never takes is_unlocked or     *)
(* is_completed of a row from TRUE to FALSE, and never removes a row.      *)
C4_FlagsMonotonic ==
  [][ (\E p \in Procs : CallResetGraph(p))
      \/ /\ Len(user_nodes') >= Len(user_nodes)
         /\ \A i \in Rows :
              /\ user_nodes'[i].node_id = user_nodes[i].node_id
              /\ user_nodes[i].is_unlocked => user_nodes'[i].is_unlocked
              /\ user_nodes[i].is_completed => user_nodes'[i].is_completed ]_vars

\* InitializeGraph returned in a state where a node is completed and a node
\* that is no seed is unlocked
C4_Witness ==
  /\ last.op = "initialize_graph"
  /\ \E i \in Rows : user_nodes[i].is_completed
  /\ \E i \in Rows : user_nodes[i].is_unlocked /\ user_nodes[i].node_id \notin SeedNodes

(* C5: CompleteNode(x) on an existing node, served twice in a row, leaves  *)
(* every row as one call leaves it, and both calls answer with the same    *)
(* list, the neighbour list stored for x.                                  *)
C5_CompleteNodeIdempotent ==
  \A x \in RequestNodes :
     LET once  == Run(graph_data, user_nodes, EnterCompleteNode(x))
         twice == Run(graph_data, once.t, EnterCompleteNode(x))
         S     == RowsWhere(user_nodes, x)
     IN S # {} =>
          /\ twice.t = once.t
          /\ twice.ps.result = once.ps.result
          /\ once.ps.result.status = "200"
          /\ once.ps.result.list = FirstRow(user_nodes, S).neighbors

\* CompleteNode has just answered, it unlocked a neighbour that is no seed,
\* and serving it again changes nothing
C5_Witness ==
  /\ last.op = "complete_node" /\ last.result.status = "200"
  /\ \E i \in Rows :
        /\ user_nodes[i].node_id \in SeqToSet(last.result.list)
        /\ user_nodes[i].node_id \notin SeedNodes
        /\ user_nodes[i].is_unlocked
  /\ Run(graph_data, user_nodes, EnterCompleteNode(last.node)).t = user_nodes

(* C6: when the scoring task of a chat turn has raised the score of its    *)
(* node to 5, then at the step in which the task ends the node is          *)
(* completed and every neighbour that has a completed node in its own      *)
(* neighbour list is unlocked.                                             *)
C6_ScoreFiveCompletes ==
  [][ \A p \in Procs :
        ( /\ procs[p].op = "process_curiosity_score"
          /\ procs[p].pc \in {"score_complete", "score_unlock"}
          /\ \A i \in RowsWhere(user_nodes, procs[p].node) :
                user_nodes[i].curiosity_score = ScoreCap
          /\ Returns(p) )
        => \A i \in RowsWhere(user_nodes', procs[p].node) :
              /\ user_nodes'[i].is_completed
              /\ \A j \in RowsWhereAny(user_nodes', user_nodes'[i].neighbors) :
                    CompletedCount(user_nodes', user_nodes'[j].neighbors) > 0
                      => user_nodes'[j].is_unlocked ]_vars

(* C7: the increment of a scoring task is never applied to a row that is   *)
(* completed at the moment of the increment.                               *)
C7_NoIncrementOnCompleted ==
  [][ \A p \in Procs :
        (procs[p].pc = "score_incr" /\ procs'[p] # procs[p])
        => \A i \in RowsWhere(user_nodes, procs[p].node) :
              user_nodes[i].is_completed
                => user_nodes'[i].curiosity_score = user_nodes[i].curiosity_score ]_vars

(* C8: no two rows of the user have the same node_id, whatever the         *)
(* interleaving of InitializeGraph calls; and an InitializeGraph call that *)
(* finds rows inserts nothing, changes no row and answers with the number  *)
(* of rows.                                                                *)
C8_InitializeIdempotent ==
  /\ [](\A i, j \in Rows : user_nodes[i].node_id = user_nodes[j].node_id => i = j)
  /\ [][ \A p \in Procs :
           (Len(user_nodes) > 0 /\ CallInitializeGraph(p))
           => /\ user_nodes' = user_nodes
              /\ last'.op = "initialize_graph"
              /\ last'.result.status = "200"
              /\ last'.result.message = "Graph already initialized"
              /\ last'.result.value = Len(user_nodes) ]_vars

\* after at least two other calls, an InitializeGraph call found rows and
\* answered with their count
C8_Witness ==
  /\ last.op = "initialize_graph"
  /\ last.result.message = "Graph already initialized"
  /\ last.result.value = Len(user_nodes)
  /\ calls >= 3

(* C9: the step of a ResetGraph call keeps the rows and their neighbour    *)
(* lists and leaves every row not completed, with score 0, with an empty   *)
(* chat history and unlocked exactly when it is moles or defining_matter:  *)
(* the row InitializeGraph inserts for that node.                          *)
C9_ResetRestoresSeedState ==
  [][ \A p \in Procs :
        CallResetGraph(p)
        => /\ Len(user_nodes') = Len(user_nodes)
           /\ \A i \in Rows :
                /\ user_nodes'[i].node_id = user_nodes[i].node_id
                /\ user_nodes'[i].neighbors = user_nodes[i].neighbors
                /\ ~user_nodes'[i].is_completed
                /\ user_nodes'[i].curiosity_score = 0
                /\ user_nodes'[i].chat_history = <<>>
                /\ user_nodes'[i].is_unlocked
                     = (user_nodes[i].node_id \in {"moles", "defining_matter"})
                /\ user_nodes'[i] = NewRow(graph_data, user_nodes[i].node_id) ]_vars

\* ResetGraph answered after a CompleteNode in progress had marked its node:
\* the mark is gone
C9_Witness ==
  /\ last.op = "reset_graph" /\ last.result.status = "200"
  /\ \E p \in Procs :
        /\ procs[p].op = "complete_node"
        /\ procs[p].pc = "complete_count"
        /\ \A i \in RowsWhere(user_nodes, procs[p].node) : ~user_nodes[i].is_completed

(* C10: once InitializeGraph has answered that it initialized the graph,   *)
(* the stored neighbour lists are symmetric over the edges of the file and *)
(* every id in a neighbour list is the node_id of a row; a file with an    *)
(* edge endpoint that is no node is not stored.                            *)
C10_NeighborListsSound ==
  (last.op = "initialize_graph"
     /\ last.result.message = "Graph initialized successfully")
  => /\ \A k \in DOMAIN graph_data.edges :
          \A i \in RowsWhere(user_nodes, graph_data.edges[k][1]),
             j \in RowsWhere(user_nodes, graph_data.edges[k][2]) :
             /\ user_nodes[j].node_id \in SeqToSet(user_nodes[i].neighbors)
             /\ user_nodes[i].node_id \in SeqToSet(user_nodes[j].neighbors)
     /\ \A i \in Rows :
          \A k \in DOMAIN user_nodes[i].neighbors :
             RowsWhere(user_nodes, user_nodes[i].neighbors[k]) # {}

\* the handler served in this step of SpecSeq
Served(op) == calls' # calls /\ last'.op = op

(* C11: CompleteNode(x) on an existing row leaves each neighbour n of x    *)
(* unlocked exactly when it was unlocked before or at least one node of    *)
(* n's own neighbour list is completed after x's completion (ANY policy,   *)
(* one completed neighbour suffices); and in the chain moles -             *)
(* defining_matter - molarity, once moles and defining_matter are          *)
(* completed, molarity is unlocked.                                        *)
C11_AnyNeighbourUnlocks ==
  /\ [][ (Served("complete_node") /\ RowsWhere(user_nodes, last'.node) # {})
         => LET x == FirstRow(user_nodes, RowsWhere(user_nodes, last'.node))
            IN \A n \in RowsWhereAny(user_nodes, x.neighbors) :
                  user_nodes'[n].is_unlocked
                    = ( \/ user_nodes[n].is_unlocked
                        \/ \E k \in DOMAIN user_nodes' :
                              /\ user_nodes'[k].node_id
                                   \in SeqToSet(user_nodes[n].neighbors)
                              /\ user_nodes'[k].is_completed ) ]_vars
  /\ [] ( ( /\ graph_data = ChainGraph
            /\ \A i \in RowsWhereAny(user_nodes, <<"moles", "defining_matter">>) :
                   user_nodes[i].is_completed
            /\ RowsWhere(user_nodes, "defining_matter") # {} )
          => \A i \in RowsWhere(user_nodes, "molarity") :
                user_nodes[i].is_unlocked )

\* in the chain, CompleteNode(defining_matter) has answered after moles was
\* completed, and molarity, no seed, has a row that is unlocked
C11_Witness ==
  /\ graph_data = ChainGraph
  /\ last.op = "complete_node" /\ last.node = "defining_matter"
  /\ last.result.status = "200"
  /\ \A x \in {"moles", "defining_matter"} :
        \E i \in RowsWhere(user_nodes, x) : user_nodes[i].is_completed
  /\ \E i \in RowsWhere(user_nodes, "molarity") : user_nodes[i].is_unlocked

(* C12: CompleteNode for a node_id that has no row of the user is answered *)
(* with the NotFound outcome (status 404, not the generic service error)   *)
(* and changes no row.                                                     *)
C12_MissingNodeIsNotFound ==
  [][ (Served("complete_node") /\ RowsWhere(user_nodes, last'.node) = {})
      => /\ last'.result.status = "404"
         /\ user_nodes' = user_nodes ]_vars

(* C18: CompleteNode(x) changes nothing but the completion flag of x's row *)
(* and the unlock flags of the rows of x's neighbours: the number of rows, *)
(* every node_id, score, neighbour list and chat history, the completion   *)
(* flag of every other row and the unlock flag of every row that is no     *)
(* neighbour of x stay as they were; with an empty neighbour list only x's *)
(* own row can change.                                                     *)
C18_CompleteNodeFrame ==
  [][ Served("complete_node")
      => LET S    == RowsWhere(user_nodes, last'.node)
             nbrs == IF S = {} THEN {}
                     ELSE SeqToSet(FirstRow(user_nodes, S).neighbors)
         IN /\ DOMAIN user_nodes' = DOMAIN user_nodes
            /\ \A i \in Rows :
                 /\ user_nodes'[i].node_id = user_nodes[i].node_id
                 /\ user_nodes'[i].curiosity_score = user_nodes[i].curiosity_score
                 /\ user_nodes'[i].neighbors = user_nodes[i].neighbors
                 /\ user_nodes'[i].chat_history = user_nodes[i].chat_history
                 /\ i \notin S
                      => user_nodes'[i].is_completed = user_nodes[i].is_completed
                 /\ user_nodes[i].node_id \notin nbrs
                      => user_nodes'[i].is_unlocked = user_nodes[i].is_unlocked
            /\ nbrs = {} => \A i \in Rows \ S : user_nodes'[i] = user_nodes[i] ]_vars

\* CompleteNode has answered for a node whose neighbour list is empty, its
\* row is completed and another row exists
C18_Witness ==
  /\ last.op = "complete_node" /\ last.result.status = "200"
  /\ last.result.list = <<>>
  /\ \E i \in RowsWhere(user_nodes, last.node) : user_nodes[i].is_completed
  /\ \E i \in Rows : user_nodes[i].node_id # last.node

\* CompleteNode has answered for a node with neighbours while a row that is
\* neither the node nor one of its neighbours exists
C18_WitnessBystander ==
  /\ last.op = "complete_node" /\ last.result.status = "200"
  /\ \E i \in Rows :
        /\ user_nodes[i].node_id # last.node
        /\ user_nodes[i].node_id \notin SeqToSet(last.result.list)

(* C19: whenever InitializeGraph answers with a success ("Graph            *)
(* initialized successfully" or "Graph already initialized"), the user has *)
(* exactly one row for every node of the topology and the count of the     *)
(* answer is the number of topology nodes, also after an InitializeGraph   *)
(* call that failed part-way and when two calls interleave.                *)
C19_InitializeSuccessIsComplete ==
  (last.op = "initialize_graph" /\ last.result.status = "200")
  => /\ last.result.value = Len(graph_data.nodes)
     /\ \A k \in DOMAIN graph_data.nodes :
          Cardinality(RowsWhere(user_nodes, graph_data.nodes[k])) = 1
     /\ Len(user_nodes) = Len(graph_data.nodes)

(* C20: in the symmetric chain moles - defining_matter - molarity, in      *)
(* every reachable state every unlocked row that is no seed node has at    *)
(* least one completed node in its neighbour list, under every             *)
(* interleaving of CompleteNode, the background tasks of chat turns and    *)
(* ResetGraph, also when ResetGraph runs between the completion and the    *)
(* unlock of a completion in progress.                                     *)
C20_UnlockedHasCompletedNeighbour ==
  graph_data = ChainGraph
  => \A i \in Rows :
        (user_nodes[i].is_unlocked /\ user_nodes[i].node_id \notin SeedNodes)
        => CompletedCount(user_nodes, user_nodes[i].neighbors) > 0

(* C13: the chat response does not wait for the curiosity judgment: once   *)
(* the answer oracle has returned, the response of the turn can be         *)
(* delivered, also while the judgment call of the turn is still pending    *)
(* and when it never returns.                                              *)
C13_ResponseNeedsOnlyAnswer ==
  \A p \in Procs :
     (turns[p].pc = "gather" /\ turns[p].answer = "ok")
     => ENABLED ChatRespond(p)

\* the turn of p answers in this step
Responds(p) == turns[p].pc = "gather" /\ turns'[p].pc # "gather"

\* the background task of the turn of p makes a step
TaskMoves(p) == turns[p].pc = "tasks" /\ procs'[p] # procs[p]

(* C14: a chat turn whose answer was generated and whose judgment oracle   *)
(* failed or returned output that is not the expected {is_curious, reason} *)
(* object is treated as not curious: it answers with success and the       *)
(* generated answer, reports no curiosity, and its background tasks change *)
(* no score, completion flag or unlock flag.                               *)
C14_DegradedJudgmentNotCurious ==
  [][ \A p \in Procs :
        /\ ( /\ Responds(p)
             /\ turns[p].answer = "ok"
             /\ turns[p].judge \in DegradedJudgments )
           => /\ reply'.id = turns[p].id
              /\ reply'.status = "200"
              /\ reply'.message = AnswerText(turns[p].id)
              /\ ~reply'.curiosity_increased
              /\ ~turns'[p].curious
        /\ (TaskMoves(p) /\ ~turns[p].curious)
           => /\ DOMAIN user_nodes' = DOMAIN user_nodes
              /\ \A i \in Rows :
                   /\ user_nodes'[i].curiosity_score = user_nodes[i].curiosity_score
                   /\ user_nodes'[i].is_completed = user_nodes[i].is_completed
                   /\ user_nodes'[i].is_unlocked = user_nodes[i].is_unlocked ]_vars

(* C15: the two background tasks of a chat turn, the history save and the  *)
(* scoring, are isolated from each other's failures: a store error in a    *)
(* task ends that task only; after the history save has ended, by its      *)
(* UPDATE or by an error, the scoring task of a curious turn starts and    *)
(* its queries have their normal effect; a step of the scoring task, error *)
(* included, leaves every stored history as it is; no task step touches    *)
(* another turn or the response, which was a success.                      *)
C15_TaskFailuresIsolated ==
  [][ \A p \in Procs :
        /\ (Responds(p) /\ turns'[p].pc = "tasks")
           => reply'.id = turns[p].id /\ reply'.status = "200"
        /\ TaskMoves(p)
           => /\ reply' = reply
              /\ \A q \in Procs \ {p} :
                    turns'[q] = turns[q] /\ procs'[q] = procs[q]
        /\ ( /\ TaskMoves(p)
             /\ procs[p].op = "save_chat_history_background"
             /\ turns[p].curious )
           => /\ turns'[p].pc = "tasks"
              /\ procs'[p] = EnterScoring(turns[p].node, TRUE)
        /\ (TaskMoves(p) /\ procs[p].op = "process_curiosity_score")
           => /\ user_nodes' \in {user_nodes,
                                  StepOf(graph_data, user_nodes, procs[p]).t}
              /\ \A i \in Rows :
                    user_nodes'[i].chat_history = user_nodes[i].chat_history ]_vars

\* the history save of a curious turn has failed, the stored history is not
\* the one of the turn, the client has its success, and the scoring task of
\* the turn has applied its increment
C15_Witness ==
  \E p \in Procs :
     /\ turns[p].pc = "tasks" /\ turns[p].failed /\ turns[p].curious
     /\ procs[p].op = "process_curiosity_score"
     /\ procs[p].pc = "score_complete"
     /\ reply.status = "200"
     /\ \E i \in RowsWhere(user_nodes, turns[p].node) :
           /\ user_nodes[i].chat_history = <<>>
           /\ user_nodes[i].curiosity_score = ScoreCap

(* C16: a chat turn whose answer generation failed answers with the        *)
(* service error (500) and has no background effect: no history save and   *)
(* no scoring task is scheduled, the turn is over with its response and no *)
(* row changes, also when the judgment of the turn was curious; background *)
(* tasks are scheduled only by turns whose answer was generated.           *)
C16_AnswerFailureHasNoEffect ==
  [][ \A p \in Procs :
        /\ (Responds(p) /\ turns[p].answer = "failed")
           => /\ reply'.id = turns[p].id
              /\ reply'.status = "500"
              /\ ~reply'.curiosity_increased
              /\ turns'[p] = IdleTurn
              /\ procs' = procs /\ procs[p] = IdleProc
              /\ user_nodes' = user_nodes
        /\ (Responds(p) /\ turns'[p].pc = "tasks")
           => turns[p].answer = "ok" ]_vars

\* the only turn so far had a curious judgment and a failed answer, it has
\* answered 500, no task is in progress and the table is the initial one
C16_Witness ==
  /\ calls = 1
  /\ reply.id = 1 /\ reply.status = "500" /\ reply.judge = "curious"
  /\ graph_data = ChainGraph
  /\ \A p \in Procs : turns[p] = IdleTurn /\ procs[p] = IdleProc
  /\ user_nodes = AddScore(InitializedRows(graph_data), "defining_matter",
                           ScoreCap - 2)

(* C17: in every reachable state the stored chat history of every row has  *)
(* at most 10 entries and is empty or the history handed over by one       *)
(* single turn, never a mix of two; and a history save that changes the    *)
(* table replaces the history of the rows of its node with the last 10     *)
(* entries of the request messages followed by the new assistant answer,   *)
(* in their order, and changes nothing else.                               *)
C17_HistoryBoundedAndWhole ==
  /\ [] ( \A i \in Rows :
             /\ Len(user_nodes[i].chat_history) <= HistoryLimit
             /\ \/ user_nodes[i].chat_history = <<>>
                \/ \E id \in 1..MaxChats, n \in MessageCounts :
                      LET h == user_nodes[i].chat_history
                          k == IF n + 1 <= HistoryLimit THEN n + 1
                               ELSE HistoryLimit
                      IN /\ Len(h) = k
                         /\ h[k] = [role |-> "assistant",
                                    content |-> AnswerText(id)]
                         /\ \A j \in 1..(k - 1) :
                               h[j] = Conversation(id, n)[n + 1 - k + j] )
  /\ [][ \A p \in Procs :
           ( /\ TaskMoves(p)
             /\ procs[p].op = "save_chat_history_background"
             /\ user_nodes' # user_nodes )
           => LET tn   == turns[p]
                  full == Conversation(tn.id, tn.n)
                            \o << [role |-> "assistant",
                                   content |-> AnswerText(tn.id)] >>
                  k    == IF Len(full) <= HistoryLimit THEN Len(full)
                          ELSE HistoryLimit
              IN /\ DOMAIN user_nodes' = DOMAIN user_nodes
                 /\ \A i \in Rows :
                      IF user_nodes[i].node_id = tn.node
                      THEN /\ Len(user_nodes'[i].chat_history) = k
                           /\ \A j \in 1..k :
                                 user_nodes'[i].chat_history[j]
                                   = full[Len(full) - k + j]
                           /\ user_nodes'[i]
                                = [user_nodes[i] EXCEPT !.chat_history =
                                     user_nodes'[i].chat_history]
                      ELSE user_nodes'[i] = user_nodes[i] ]_vars

\* two turns at once: the first has saved its history and is scoring, and
\* the stored history is the whole of the second turn's, 10 entries of the
\* 11 it had, its first request message cut off
C17_Witness ==
  \E p \in Procs, i \in Rows :
     /\ turns[p].id = 1 /\ turns[p].pc = "tasks" /\ ~turns[p].failed
     /\ procs[p].op = "process_curiosity_score"
     /\ user_nodes[i].node_id = turns[p].node
     /\ Len(user_nodes[i].chat_history) = HistoryLimit
     /\ user_nodes[i].chat_history[1].content
          = <<2, MaxMessages + 2 - HistoryLimit>>
     /\ user_nodes[i].chat_history[HistoryLimit].content = AnswerText(2)

\* the completion and unlock flags of every row
Flags(t) == [i \in DOMAIN t |-> <<t[i].is_completed, t[i].is_unlocked>>]

(* C21: when the scoring task of a chat turn, run without interleaving,    *)
(* completes its node (score raised to the cap, node marked completed,     *)
(* every neighbour unlocked), the completion and unlock flags of every row *)
(* are the ones CompleteNode on the same node, run without interleaving    *)
(* from the same state, would have produced.                               *)
C21_ScoreCompletionAsCompleteNode ==
  [][ (Served("process_curiosity_score") /\ last'.result.message = "completed")
      => Flags(user_nodes')
           = Flags(Run(graph_data, user_nodes, EnterCompleteNode(last'.node)).t) ]_vars

\* the scoring task has completed a node with neighbours, a neighbour that
\* is no seed node is unlocked, and the node's score is at the cap
C21_Witness ==
  /\ last.op = "process_curiosity_score" /\ last.result.message = "completed"
  /\ last.result.list # <<>>
  /\ \E i \in RowsWhere(user_nodes, last.node) :
        user_nodes[i].is_completed /\ user_nodes[i].curiosity_score = ScoreCap
  /\ \E j \in RowsWhereAny(user_nodes, last.result.list) :
        user_nodes[j].node_id \notin SeedNodes /\ user_nodes[j].is_unlocked

(* C22: in every quiescent state, one with no request and no background    *)
(* task in progress, every row whose curiosity_score is 5 or more is       *)
(* completed, whatever AdjustCuriosity calls, scoring tasks, store         *)
(* failures and resets came before.                                        *)
C22_CapImpliesCompleted ==
  (\A p \in Procs : procs[p].pc = "idle")
  => \A i \in Rows :
        user_nodes[i].curiosity_score >= ScoreCap => user_nodes[i].is_completed

(* C23: the curiosity_increased flag of a chat response is truthful: a     *)
(* turn answers curiosity_increased = true only when its node has a row    *)
(* that is not completed and whose score is below 5, and the increment of  *)
(* the scoring task of such a turn raises the score of the node by exactly *)
(* 1.                                                                      *)
C23_CuriosityIncreasedTruthful ==
  [][ \A p \in Procs :
        /\ (Responds(p) /\ reply'.id = turns[p].id /\ reply'.curiosity_increased)
           => /\ RowsWhere(user_nodes, turns[p].node) # {}
              /\ \A i \in RowsWhere(user_nodes, turns[p].node) :
                    /\ ~user_nodes[i].is_completed
                    /\ user_nodes[i].curiosity_score < ScoreCap
        /\ ( /\ TaskMoves(p)
             /\ procs[p].pc = "score_incr"
             /\ procs'[p].pc # "idle" )
           => \A i \in RowsWhere(user_nodes, turns[p].node) :
                 user_nodes'[i].curiosity_score
                   = user_nodes[i].curiosity_score + 1 ]_vars

====
